---- MODULE Spec2Model ----
(***************************************************************************)
(* Model of main() in main.py: the sequential orchestration run that       *)
(* generates a CI pipeline and a Dockerfile, computes a version tag,       *)
(* checks the registry credentials, then logs in, builds and pushes an     *)
(* image with the docker CLI, checks the build status and asks for a       *)
(* prediction.                                                             *)
(*                                                                         *)
(* Strings the run computes (environment values, tags, argv entries,       *)
(* captured stderr) are sequences of character codes, so that formatting   *)
(* and lexicographic order are computed, not assumed.  Fixed message texts *)
(* that are only printed are TLA+ strings.                                 *)
(***************************************************************************)
EXTENDS Integers, Sequences, FiniteSets, TLC

(***************************************************************************)
(* Bounds of the model.                                                    *)
(***************************************************************************)
\* how many seconds the wall clock may advance during one run
MaxTicks == 2

(***************************************************************************)
(* Character codes and fixed texts.                                        *)
(***************************************************************************)
\* "v1-"
TagPrefix == <<118, 49, 45>>
\* "-"
Dash == <<45>>
\* "/myapp:"
MyApp == <<47, 109, 121, 97, 112, 112, 58>>
\* "docker", "login", "build", "push"
StrDocker == <<100, 111, 99, 107, 101, 114>>
StrLogin == <<108, 111, 103, 105, 110>>
StrBuild == <<98, 117, 105, 108, 100>>
StrPush == <<112, 117, 115, 104>>
\* "--username", "--password-stdin", "--password", "-t", "."
StrUsernameOpt == <<45, 45, 117, 115, 101, 114, 110, 97, 109, 101>>
StrPasswordStdinOpt == <<45, 45, 112, 97, 115, 115, 119, 111, 114, 100, 45, 115, 116, 100, 105, 110>>
StrPasswordOpt == <<45, 45, 112, 97, 115, 115, 119, 111, 114, 100>>
StrDashT == <<45, 116>>
StrDot == <<46>>
\* "3.13.0"
PythonVersion == <<51, 46, 49, 51, 46, 48>>

\* the two files the run writes
PipelinePath == ".github/workflows/CI3.yml"
DockerfilePath == "Dockerfile"
Paths == {PipelinePath, DockerfilePath}

(***************************************************************************)
(* Lexicographic order of strings (Python's str comparison on the          *)
(* characters used here).                                                  *)
(***************************************************************************)
MinOf(a, b) == IF a <= b THEN a ELSE b

LexLess(a, b) ==
    \/ \E i \in 1..MinOf(Len(a), Len(b)) :
          /\ \A j \in 1..(i - 1) : a[j] = b[j]
          /\ a[i] < b[i]
    \/ /\ Len(a) < Len(b)
       /\ \A j \in 1..Len(a) : a[j] = b[j]

(***************************************************************************)
(* The wall clock: naive local datetimes, as datetime.datetime.now()       *)
(* returns them.                                                           *)
(***************************************************************************)
DateTime(Y, M, D, h, m, s) == [year |-> Y, month |-> M, day |-> D, hour |-> h, minute |-> m, second |-> s]

IsLeap(Y) == (Y % 4 = 0 /\ Y % 100 # 0) \/ Y % 400 = 0

DaysInMonth(Y, M) ==
    IF M = 2 THEN (IF IsLeap(Y) THEN 29 ELSE 28)
    ELSE IF M \in {4, 6, 9, 11} THEN 30 ELSE 31

\* the datetime one second after t
NextSecond(t) ==
    IF t.second < 59 THEN [t EXCEPT !.second = t.second + 1]
    ELSE IF t.minute < 59 THEN [t EXCEPT !.second = 0, !.minute = t.minute + 1]
    ELSE IF t.hour < 23 THEN [t EXCEPT !.second = 0, !.minute = 0, !.hour = t.hour + 1]
    ELSE IF t.day < DaysInMonth(t.year, t.month)
         THEN [t EXCEPT !.second = 0, !.minute = 0, !.hour = 0, !.day = t.day + 1]
    ELSE IF t.month < 12
         THEN [t EXCEPT !.second = 0, !.minute = 0, !.hour = 0, !.day = 1, !.month = t.month + 1]
    ELSE DateTime(t.year + 1, 1, 1, 0, 0, 0)

\* chronological order of naive datetimes (datetime.__lt__)
DateTimeLess(a, b) ==
    LET ka == <<a.year, a.month, a.day, a.hour, a.minute, a.second>>
        kb == <<b.year, b.month, b.day, b.hour, b.minute, b.second>>
    IN LexLess(ka, kb)

\* the moments at which a run may start
StartTimes ==
    { DateTime(2024, 12, 31, 23, 59, 59),
      DateTime(2025, 9, 9, 9, 9, 9),
      DateTime(2025, 2, 28, 23, 59, 58) }

(***************************************************************************)
(* strftime("%Y%m%d-%H%M%S") and the version tag.                          *)
(***************************************************************************)
RECURSIVE Decimal(_)
\* the decimal digits of n, without padding
Decimal(n) == IF n < 10 THEN <<48 + n>> ELSE Decimal(n \div 10) \o <<48 + (n % 10)>>

\* %m, %d, %H, %M, %S: two digits, zero padded
Pad2Unpadded(n) == Decimal(n)
Pad2(n) == <<48 + (n \div 10), 48 + (n % 10)>>

\* %Y
FmtYear(Y) == Decimal(Y)

\* datetime.strftime("%Y%m%d-%H%M%S")
Strftime(t) ==
    FmtYear(t.year) \o Pad2(t.month) \o Pad2(t.day) \o Dash
        \o Pad2(t.hour) \o Pad2(t.minute) \o Pad2(t.second)

\* f"v1-{timestamp}"
VersionTag(t) == TagPrefix \o Strftime(t)

\* f"{dockerhub_user}/myapp:{version_tag}"
FullImageTag(user, tag) == user \o MyApp \o tag


(***************************************************************************)
(* Values of the environment and of the external world.                    *)
(***************************************************************************)
\* os.getenv: None when the variable is not set, else its text
Unset == [present |-> FALSE, val |-> <<>>]
Text(v) == [present |-> TRUE, val |-> v]

\* "al", "b", "t"
UserValues == {Unset, Text(<<>>), Text(<<97, 108>>), Text(<<98>>)}
PassValues == {Unset, Text(<<>>), Text(<<116>>), Text(<<97, 108>>)}

\* Python truthiness of an Optional[str]
Falsy(v) == ~v.present \/ v.val = <<>>

\* how a call of a generative, status or prediction collaborator may end
CollaboratorOutcomes == {"ok", "error"}
\* texts the collaborators return: "yml", "FROM", "ok" / "ko", "low"
PipelineText == <<121, 109, 108>>
DockerfileText == <<70, 82, 79, 77>>
StatusTexts == {<<111, 107>>, <<107, 111>>}
PredictionText == <<108, 111, 119>>

\* how open(path, "w") / f.write may end
WriteOutcomes == {"ok", "oserror"}
\* how starting the docker executable may end
LaunchOutcomes == {"ok", "oserror"}
\* exit codes of a docker subprocess (negative: killed by a signal)
ReturnCodes == {0, 1, -9}
\* captured standard error of a docker subprocess: "", "no"
StderrTexts == {<<>>, <<110, 111>>}

(***************************************************************************)
(* State.                                                                  *)
(***************************************************************************)
VARIABLES
    pc,              \* the stage main() executes next, or Done / Aborted
    env,             \* the process environment (registry credentials)
    now,             \* the wall clock
    ticks,           \* seconds elapsed since the run started
    version_tag,     \* local version_tag (<<>> before line 53)
    tagCount,        \* how many times the version tag was generated
    dockerhub_user,  \* local dockerhub_user
    dockerhub_pass,  \* local dockerhub_pass
    full_image_tag,  \* local full_image_tag (<<>> before line 64)
    status_config,   \* image_tag of the BuildStatusConfig (<<>> before line 66)
    files,           \* the files on disk the run writes: path -> text or <<>>
    written,         \* the paths written so far, in order
    collab,          \* the collaborator calls made so far, in order
    calls,           \* the docker subprocesses run so far, in order
    out,             \* what the process printed, in order
    status,          \* local status
    build_data,      \* the record passed to the predictor (<<>> before line 122)
    completed,       \* the stages completed without failure, in order
    failure,         \* the failure that ended the run
    exitCode,        \* <<>> while running, <<code>> once the process has exited
    ta, tb,          \* two wall-clock readings (tag generator checks)
    tagA, tagB       \* their version tags (<<>> before generation)

runVars == <<pc, env, now, ticks, version_tag, tagCount, dockerhub_user, dockerhub_pass,
             full_image_tag, status_config, files, written, collab, calls, out, status,
             build_data, completed, failure, exitCode>>
tagVars == <<ta, tb, tagA, tagB>>
vars == <<runVars, tagVars>>

NoFailure == [stage |-> "", error |-> ""]
Failure(stage, error) == [stage |-> stage, error |-> error]

\* one printed line: stream, fixed text, interpolated or printed value
Line(text, arg) == [stream |-> "stdout", text |-> text, arg |-> arg]
\* the traceback of an uncaught exception
Traceback(error) == [stream |-> "stderr", text |-> "Traceback", arg |-> <<>>]

\* one argv entry (or stdin text) with the locals its expression reads
Arg(text, reads) == [text |-> text, reads |-> reads]
Lit(text) == Arg(text, {})

(***************************************************************************)
(* Decisions main() takes, one operator per branch of the code.            *)
(***************************************************************************)
\* line 59: if not dockerhub_user or not dockerhub_pass
CredentialsMissingBothOnly(user, pass) == Falsy(user) /\ Falsy(pass)
CredentialsMissing(user, pass) == Falsy(user) \/ Falsy(pass)

\* lines 77-81, 90-94, 103-107: a non-zero return code ends the run
AfterLoginIgnoringFailure(returncode) == "Build"
AfterLoginRetrying(returncode) == IF returncode # 0 THEN "Login" ELSE "Build"
AfterLogin(returncode) == IF returncode # 0 THEN "Aborted" ELSE "Build"

AfterBuildIgnoringFailure(returncode) == "Push"
AfterBuildSkippingPush(returncode) == IF returncode # 0 THEN "Aborted" ELSE "CheckStatus"
AfterBuild(returncode) == IF returncode # 0 THEN "Aborted" ELSE "Push"

AfterPushIgnoringFailure(returncode) == "CheckStatus"
AfterPushRetrying(returncode) == IF returncode # 0 THEN "Push" ELSE "CheckStatus"
AfterPush(returncode) == IF returncode # 0 THEN "Aborted" ELSE "CheckStatus"

\* the statement that follows the Dockerfile stage (lines 47-53)
AfterGenerateDockerfileSkippingTag == "ValidateCredentials"
AfterGenerateDockerfile == "ComputeVersionTag"

\* lines 71-73: argv and stdin of docker login
LoginInvocationPasswordInArgv(user, pass) ==
    [argv |-> <<Lit(StrDocker), Lit(StrLogin), Lit(StrUsernameOpt), Arg(user, {"dockerhub_user"}),
                Lit(StrPasswordOpt), Arg(pass, {"dockerhub_pass"})>>,
     input |-> <<>>]
LoginInvocation(user, pass) ==
    [argv |-> <<Lit(StrDocker), Lit(StrLogin), Lit(StrUsernameOpt), Arg(user, {"dockerhub_user"}),
                Lit(StrPasswordStdinOpt)>>,
     input |-> <<Arg(pass, {"dockerhub_pass"})>>]

\* line 86: argv of docker build
BuildInvocation(tag) ==
    [argv |-> <<Lit(StrDocker), Lit(StrBuild), Lit(StrDashT),
                Arg(tag, {"dockerhub_user", "version_tag"}), Lit(StrDot)>>,
     input |-> <<>>]

\* line 99: the tag docker push is given
PushImageTagRecomputed == FullImageTag(dockerhub_user.val, VersionTag(now))
PushImageTag == full_image_tag

PushInvocation(tag) ==
    [argv |-> <<Lit(StrDocker), Lit(StrPush), Arg(tag, {"dockerhub_user", "version_tag"})>>,
     input |-> <<>>]

\* subprocess.run(..., capture_output=True, text=True): the CompletedProcess
Completed(cmd, inv, returncode, stderr) ==
    [cmd |-> cmd, argv |-> inv.argv, input |-> inv.input,
     returncode |-> returncode, stderr |-> stderr]

\* with open(path, "w") as f: f.write(text)
WriteFileNothing(fs, path, text) == fs
WriteFileClobbering(fs, path, text) == [p \in Paths |-> IF p = path THEN text ELSE <<>>]
WriteFile(fs, path, text) == [fs EXCEPT ![path] = text]

\* lines 122-128
BuildDataWithoutStatus(st) ==
    [dockerfile_exists |-> TRUE, ci_pipeline_exists |-> TRUE, last_build_status |-> <<>>,
     python_version |-> PythonVersion, dependencies_updated |-> TRUE]
BuildData(st) ==
    [dockerfile_exists |-> TRUE, ci_pipeline_exists |-> TRUE, last_build_status |-> st,
     python_version |-> PythonVersion, dependencies_updated |-> TRUE]

\* lines 18-24, 34-41, 66, 115-119: the configurations given to the agents
GhaConfig == [workflow_name |-> "CI Pipeline", python_version |-> PythonVersion, run_tests |-> TRUE]
DockerConfig == [base_image |-> "nginx:alpine", expose_port |-> 80, copy_source |-> "./html",
                 work_dir |-> "/usr/share/nginx/html"]
StatusConfigBareVersion(tag) == [image_tag |-> version_tag]
StatusConfig(tag) == [image_tag |-> tag]
PredictorConfig == [model |-> "llama3-8b-8192"]

\* one call of a collaborator
CollabCall(name, config, arg, outcome) ==
    [name |-> name, config |-> config, arg |-> arg, outcome |-> outcome]

\* lines 60-61: what is printed when a credential is missing
CredentialErrorLinesNamingMissing(user, pass) ==
    <<Line("Error: DockerHub credentials are not set in environment variables.", <<>>),
      Line(IF Falsy(user) /\ Falsy(pass)
              THEN "Please set DOCKERHUB_USERNAME and DOCKERHUB_PASSWORD in GitHub Secrets."
              ELSE IF Falsy(user) THEN "Please set DOCKERHUB_USERNAME in GitHub Secrets."
              ELSE "Please set DOCKERHUB_PASSWORD in GitHub Secrets.", <<>>)>>
CredentialErrorLines(user, pass) ==
    <<Line("Error: DockerHub credentials are not set in environment variables.", <<>>),
      Line("Please set DOCKERHUB_USERNAME and DOCKERHUB_PASSWORD in GitHub Secrets.", <<>>)>>

\* lines 78-79, 91-92, 104-105: what is printed when a docker subprocess fails
LoginFailureReport(result) ==
    <<Line("Docker login failed:", <<>>), Line("", result.stderr)>>

BuildFailureReportSayingLogin(result) ==
    <<Line("Docker login failed:", <<>>), Line("", result.stderr)>>
BuildFailureReport(result) ==
    <<Line("Docker build failed:", <<>>), Line("", result.stderr)>>

PushFailureReport(result) ==
    <<Line("Docker push failed:", <<>>), Line("", result.stderr)>>

(***************************************************************************)
(* How a stage ends.                                                       *)
(***************************************************************************)
\* the stage completes and main() goes on with the statement at next
Proceed(stage, next, lines) ==
    /\ pc' = next
    /\ completed' = Append(completed, stage)
    /\ out' = out \o lines
    /\ UNCHANGED <<failure, exitCode>>

\* exit(1) after the error lines were printed
Exit1WithStatus2(stage, error, lines) ==
    /\ pc' = "Aborted"
    /\ exitCode' = <<2>>
    /\ failure' = Failure(stage, error)
    /\ out' = out \o lines
    /\ UNCHANGED completed
Exit1(stage, error, lines) ==
    /\ pc' = "Aborted"
    /\ exitCode' = <<1>>
    /\ failure' = Failure(stage, error)
    /\ out' = out \o lines
    /\ UNCHANGED completed

\* an exception nobody catches: traceback on stderr, exit status 1
Uncaught(stage, error, lines) ==
    Exit1(stage, error, lines \o <<Traceback(error)>>)

(***************************************************************************)
(* Initial state: the process has started, nothing has run yet.            *)
(***************************************************************************)
\* the state of a run that has just started, with environment e at time t
RunStart(e, t) ==
    /\ pc = "GeneratePipeline"
    /\ env = e
    /\ now = t
    /\ ticks = 0
    /\ version_tag = <<>>
    /\ tagCount = 0
    /\ dockerhub_user = Unset
    /\ dockerhub_pass = Unset
    /\ full_image_tag = <<>>
    /\ status_config = StatusConfig(<<>>)
    /\ files = [p \in Paths |-> <<>>]
    /\ written = <<>>
    /\ collab = <<>>
    /\ calls = <<>>
    /\ out = <<>>
    /\ status = <<>>
    /\ build_data = BuildData(<<>>)
    /\ completed = <<>>
    /\ failure = NoFailure
    /\ exitCode = <<>>

\* no tag-generator check in progress
NoTagCheck ==
    /\ ta = DateTime(2025, 1, 1, 0, 0, 0)
    /\ tb = DateTime(2025, 1, 1, 0, 0, 0)
    /\ tagA = <<>>
    /\ tagB = <<>>

Init ==
    /\ \E e \in [DOCKERHUB_USERNAME : UserValues, DOCKERHUB_PASSWORD : PassValues],
          t \in StartTimes : RunStart(e, t)
    /\ NoTagCheck

(***************************************************************************)
(* The stages of main(), in program order.                                 *)
(***************************************************************************)
\* lines 14-30
GeneratePipeline ==
    /\ pc = "GeneratePipeline"
    /\ \E r \in CollaboratorOutcomes, w \in WriteOutcomes :
         LET head == <<Line("DevOps AI Team Starting Up...", <<>>),
                       Line("GitHub Actions Agent: Creating CI/CD Pipeline...", <<>>)>>
         IN /\ collab' = Append(collab, CollabCall("generate_pipeline", GhaConfig, <<>>, r))
            /\ IF r = "error"
               THEN /\ Uncaught("GeneratePipeline", "CollaboratorError", head)
                    /\ UNCHANGED <<files, written>>
               ELSE IF w = "oserror"
               THEN /\ Uncaught("GeneratePipeline", "OSError", head)
                    /\ UNCHANGED <<files, written>>
               ELSE /\ files' = WriteFile(files, PipelinePath, PipelineText)
                    /\ written' = Append(written, PipelinePath)
                    /\ Proceed("GeneratePipeline", "GenerateDockerfile",
                               head \o <<Line("CI/CD Pipeline created!", <<>>)>>)
    /\ UNCHANGED <<env, now, ticks, version_tag, tagCount, dockerhub_user, dockerhub_pass,
                   full_image_tag, status_config, calls, status, build_data, tagVars>>

\* lines 32-47
GenerateDockerfile ==
    /\ pc = "GenerateDockerfile"
    /\ \E r \in CollaboratorOutcomes, w \in WriteOutcomes :
         LET head == <<Line("Dockerfile Agent: Creating Dockerfile...", <<>>)>>
         IN /\ collab' = Append(collab, CollabCall("generate_dockerfile", DockerConfig, <<>>, r))
            /\ IF r = "error"
               THEN /\ Uncaught("GenerateDockerfile", "CollaboratorError", head)
                    /\ UNCHANGED <<files, written>>
               ELSE IF w = "oserror"
               THEN /\ Uncaught("GenerateDockerfile", "OSError", head)
                    /\ UNCHANGED <<files, written>>
               ELSE /\ files' = WriteFile(files, DockerfilePath, DockerfileText)
                    /\ written' = Append(written, DockerfilePath)
                    /\ Proceed("GenerateDockerfile", AfterGenerateDockerfile,
                               head \o <<Line("Dockerfile created!", <<>>)>>)
    /\ UNCHANGED <<env, now, ticks, version_tag, tagCount, dockerhub_user, dockerhub_pass,
                   full_image_tag, status_config, calls, status, build_data, tagVars>>

\* lines 50-53
ComputeVersionTag ==
    /\ pc = "ComputeVersionTag"
    /\ version_tag' = VersionTag(now)
    /\ tagCount' = tagCount + 1
    /\ Proceed("ComputeVersionTag", "ValidateCredentials",
               <<Line("Build Status Agent: Building and pushing Docker image...", <<>>)>>)
    /\ UNCHANGED <<env, now, ticks, dockerhub_user, dockerhub_pass, full_image_tag,
                   status_config, files, written, collab, calls, status, build_data, tagVars>>

\* lines 55-67
ValidateCredentials ==
    /\ pc = "ValidateCredentials"
    /\ dockerhub_user' = env.DOCKERHUB_USERNAME
    /\ dockerhub_pass' = env.DOCKERHUB_PASSWORD
    /\ IF CredentialsMissing(dockerhub_user', dockerhub_pass')
       THEN /\ Exit1("ValidateCredentials", "MissingCredentials",
                     CredentialErrorLines(dockerhub_user', dockerhub_pass'))
            /\ UNCHANGED <<full_image_tag, status_config>>
       ELSE /\ full_image_tag' = FullImageTag(dockerhub_user'.val, version_tag)
            /\ status_config' = StatusConfig(full_image_tag')
            /\ Proceed("ValidateCredentials", "Login", <<>>)
    /\ UNCHANGED <<env, now, ticks, version_tag, tagCount, files, written, collab, calls,
                   status, build_data, tagVars>>

\* lines 70-81
Login ==
    /\ pc = "Login"
    /\ \E l \in LaunchOutcomes, rc \in ReturnCodes, e \in StderrTexts :
         LET head == <<Line("Logging in to Docker Hub...", <<>>)>>
         IN IF l = "oserror"
            THEN /\ Uncaught("Login", "OSError", head)
                 /\ UNCHANGED calls
            ELSE /\ calls' = Append(calls, Completed("login",
                                 LoginInvocation(dockerhub_user.val, dockerhub_pass.val), rc, e))
                 /\ IF AfterLogin(rc) = "Aborted"
                    THEN Exit1("Login", "SubprocessFailure",
                               head \o LoginFailureReport(calls'[Len(calls')]))
                    ELSE Proceed("Login", AfterLogin(rc),
                                 head \o <<Line("Docker login successful.", <<>>)>>)
    /\ UNCHANGED <<env, now, ticks, version_tag, tagCount, dockerhub_user, dockerhub_pass,
                   full_image_tag, status_config, files, written, collab, status, build_data,
                   tagVars>>

\* lines 84-94
Build ==
    /\ pc = "Build"
    /\ \E l \in LaunchOutcomes, rc \in ReturnCodes, e \in StderrTexts :
         LET head == <<Line("Building Docker image: ", full_image_tag)>>
         IN IF l = "oserror"
            THEN /\ Uncaught("Build", "OSError", head)
                 /\ UNCHANGED calls
            ELSE /\ calls' = Append(calls, Completed("build", BuildInvocation(full_image_tag), rc, e))
                 /\ IF AfterBuild(rc) = "Aborted"
                    THEN Exit1("Build", "SubprocessFailure",
                               head \o BuildFailureReport(calls'[Len(calls')]))
                    ELSE Proceed("Build", AfterBuild(rc),
                                 head \o <<Line("Docker image built successfully.", <<>>)>>)
    /\ UNCHANGED <<env, now, ticks, version_tag, tagCount, dockerhub_user, dockerhub_pass,
                   full_image_tag, status_config, files, written, collab, status, build_data,
                   tagVars>>

\* lines 97-107
Push ==
    /\ pc = "Push"
    /\ \E l \in LaunchOutcomes, rc \in ReturnCodes, e \in StderrTexts :
         LET head == <<Line("Pushing Docker image: ", full_image_tag)>>
         IN IF l = "oserror"
            THEN /\ Uncaught("Push", "OSError", head)
                 /\ UNCHANGED calls
            ELSE /\ calls' = Append(calls, Completed("push", PushInvocation(PushImageTag), rc, e))
                 /\ IF AfterPush(rc) = "Aborted"
                    THEN Exit1("Push", "SubprocessFailure",
                               head \o PushFailureReport(calls'[Len(calls')]))
                    ELSE Proceed("Push", AfterPush(rc),
                                 head \o <<Line("Docker image pushed successfully!", <<>>)>>)
    /\ UNCHANGED <<env, now, ticks, version_tag, tagCount, dockerhub_user, dockerhub_pass,
                   full_image_tag, status_config, files, written, collab, status, build_data,
                   tagVars>>

\* lines 110-111
CheckStatus ==
    /\ pc = "CheckStatus"
    /\ \E r \in CollaboratorOutcomes, st \in StatusTexts :
         /\ collab' = Append(collab, CollabCall("check_build_status", status_config, <<>>, r))
         /\ IF r = "error"
            THEN /\ Uncaught("CheckStatus", "CollaboratorError", <<>>)
                 /\ UNCHANGED status
            ELSE /\ status' = st
                 /\ Proceed("CheckStatus", "Predict", <<Line("Build Status: ", st)>>)
    /\ UNCHANGED <<env, now, ticks, version_tag, tagCount, dockerhub_user, dockerhub_pass,
                   full_image_tag, status_config, files, written, calls, build_data, tagVars>>

\* lines 114-133, and the return of main(): exit status 0
Predict ==
    /\ pc = "Predict"
    /\ build_data' = BuildData(status)
    /\ \E r \in CollaboratorOutcomes :
         LET head == <<Line("Build Predictor Agent: Analyzing build patterns...", <<>>)>>
         IN /\ collab' = Append(collab, CollabCall("predict_build_failure", PredictorConfig,
                                                   build_data', r))
            /\ IF r = "error"
               THEN Uncaught("Predict", "CollaboratorError", head)
               ELSE /\ pc' = "Done"
                    /\ exitCode' = <<0>>
                    /\ completed' = Append(completed, "Predict")
                    /\ out' = out \o head \o
                              <<Line("Build Prediction: ", PredictionText),
                                Line("DevOps AI Team has completed their tasks!", <<>>)>>
                    /\ UNCHANGED failure
    /\ UNCHANGED <<env, now, ticks, version_tag, tagCount, dockerhub_user, dockerhub_pass,
                   full_image_tag, status_config, files, written, calls, status, tagVars>>

\* the wall clock advances by one second while the run is in progress
Tick ==
    /\ pc \notin {"Done", "Aborted"}
    /\ ticks < MaxTicks
    /\ now' = NextSecond(now)
    /\ ticks' = ticks + 1
    /\ UNCHANGED <<pc, env, version_tag, tagCount, dockerhub_user, dockerhub_pass,
                   full_image_tag, status_config, files, written, collab, calls, out, status,
                   build_data, completed, failure, exitCode, tagVars>>

Next ==
    \/ GeneratePipeline
    \/ GenerateDockerfile
    \/ ComputeVersionTag
    \/ ValidateCredentials
    \/ Login
    \/ Build
    \/ Push
    \/ CheckStatus
    \/ Predict
    \/ Tick

Spec == Init /\ [][Next]_vars

\* a statement of main(): the interpreter keeps executing the program, and every
\* blocking call (collaborator, file write, subprocess) eventually returns
RunStep ==
    \/ GeneratePipeline
    \/ GenerateDockerfile
    \/ ComputeVersionTag
    \/ ValidateCredentials
    \/ Login
    \/ Build
    \/ Push
    \/ CheckStatus
    \/ Predict

LiveSpec == Init /\ [][Next]_vars /\ WF_vars(RunStep)

(***************************************************************************)
(* The version tag generator on its own: lines 52-53 applied to two        *)
(* wall-clock readings.                                                    *)
(***************************************************************************)
YearSamples == {1999, 2000, 2025}
MonthSamples == {2, 9, 10}
DaySamples == {9, 10, 28}
HourSamples == {9, 10, 23}
MinuteSamples == {0, 59}
SecondSamples == {9, 10, 59}

DateTimes ==
    { DateTime(Y, M, D, h, m, sec) :
        Y \in YearSamples, M \in MonthSamples, D \in DaySamples,
        h \in HourSamples, m \in MinuteSamples, sec \in SecondSamples }

TagInit ==
    /\ RunStart([DOCKERHUB_USERNAME |-> Unset, DOCKERHUB_PASSWORD |-> Unset],
                DateTime(2025, 1, 1, 0, 0, 0))
    /\ ta \in DateTimes
    /\ tb \in DateTimes
    /\ tagA = <<>>
    /\ tagB = <<>>

GenerateTagA ==
    /\ tagA = <<>>
    /\ tagA' = VersionTag(ta)
    /\ UNCHANGED <<runVars, ta, tb, tagB>>

GenerateTagB ==
    /\ tagB = <<>>
    /\ tagB' = VersionTag(tb)
    /\ UNCHANGED <<runVars, ta, tb, tagA>>

TagNext ==
    \/ GenerateTagA
    \/ GenerateTagB

SpecTag == TagInit /\ [][TagNext]_vars

(***************************************************************************)
(* Vocabulary of the properties.                                           *)
(***************************************************************************)
Terminal == {"Done", "Aborted"}

\* the positions (in calls) of the invocations of cmd
Invocations(cmd) == {i \in 1..Len(calls) : calls[i].cmd = cmd}

\* a registry credential is absent or empty in the environment
CredsAbsent == Falsy(env.DOCKERHUB_USERNAME) \/ Falsy(env.DOCKERHUB_PASSWORD)

\* s is a prefix of t
IsPrefix(s, t) == Len(s) <= Len(t) /\ \A i \in 1..Len(s) : s[i] = t[i]

\* the order of the stages as the specification lists them
SpecStageOrder ==
    <<"GeneratePipeline", "GenerateDockerfile", "ValidateCredentials", "ComputeVersionTag",
      "Login", "Build", "Push", "CheckStatus", "Predict">>

\* the order of the stages as main() executes them
CodeStageOrder ==
    <<"GeneratePipeline", "GenerateDockerfile", "ComputeVersionTag", "ValidateCredentials",
      "Login", "Build", "Push", "CheckStatus", "Predict">>

(***************************************************************************)
(* C1: in every run where the registry username or password is absent or   *)
(* empty, login, build and push are never invoked, the run never gets past *)
(* the credential check, and if the process has exited its exit code is 1. *)
(***************************************************************************)
C1_NoSubprocessWithoutCredentials ==
    CredsAbsent =>
        /\ calls = <<>>
        /\ pc \in {"GeneratePipeline", "GenerateDockerfile", "ComputeVersionTag",
                   "ValidateCredentials", "Aborted"}
        /\ (exitCode # <<>> => exitCode = <<1>>)

\* a run with an empty username and a password, ended by the credential check
C1_Witness ==
    /\ env.DOCKERHUB_USERNAME = Text(<<>>)
    /\ ~Falsy(env.DOCKERHUB_PASSWORD)
    /\ failure = Failure("ValidateCredentials", "MissingCredentials")
    /\ exitCode = <<1>>

(***************************************************************************)
(* C2: build is invoked only after a login that returned 0, push only      *)
(* after a build that returned 0; after a login that returned non-zero     *)
(* there is no build and no push.                                          *)
(***************************************************************************)
C2_LifecycleOrder ==
    /\ \A i \in Invocations("build") :
          \E j \in Invocations("login") : j < i /\ calls[j].returncode = 0
    /\ \A i \in Invocations("push") :
          \E j \in Invocations("build") : j < i /\ calls[j].returncode = 0
    /\ (\E j \in Invocations("login") : calls[j].returncode # 0) =>
          (Invocations("build") = {} /\ Invocations("push") = {})

\* login, build and push have all been invoked
C2_Witness ==
    /\ Invocations("login") # {}
    /\ Invocations("build") # {}
    /\ Invocations("push") # {}

(***************************************************************************)
(* C3: if build returns a non-zero exit code, push is never invoked, login *)
(* was invoked exactly once and before the build, and the run has aborted  *)
(* with exit code 1.                                                       *)
(***************************************************************************)
C3_BuildFailureStopsRun ==
    \A i \in Invocations("build") :
        calls[i].returncode # 0 =>
            /\ Invocations("push") = {}
            /\ Cardinality(Invocations("login")) = 1
            /\ \A j \in Invocations("login") : j < i
            /\ pc = "Aborted"
            /\ exitCode = <<1>>

\* a build that was killed by a signal after a successful login
C3_Witness ==
    \E i \in Invocations("build") :
        /\ calls[i].returncode = -9
        /\ failure.stage = "Build"

(***************************************************************************)
(* C4: the version tag is generated at most once per run and before any    *)
(* build, it never changes once generated, the image tag given to build is *)
(* built from it, and whenever build and push are both invoked they are    *)
(* given the same image tag.                                               *)
(***************************************************************************)
C4_TagState ==
    /\ tagCount <= 1
    /\ (tagCount = 0) = (version_tag = <<>>)
    /\ \A i \in Invocations("build") :
          /\ tagCount = 1
          /\ calls[i].argv[4].text = FullImageTag(dockerhub_user.val, version_tag)
    /\ \A i \in Invocations("build") : \A j \in Invocations("push") :
          calls[i].argv[4].text = calls[j].argv[3].text

C4_OneTagPerRun ==
    /\ []C4_TagState
    /\ [][version_tag # <<>> => version_tag' = version_tag]_vars

\* build and push were both invoked, and the clock has moved on since the tag was generated
C4_Witness ==
    /\ Invocations("build") # {}
    /\ Invocations("push") # {}
    /\ VersionTag(now) # version_tag

(***************************************************************************)
(* C5: the exit code is 0 exactly when all nine stages completed without   *)
(* failure, and 1 as soon as a failure was detected (missing credentials,  *)
(* a non-zero login/build/push return code, a failed collaborator); no     *)
(* other exit code occurs.                                                 *)
(***************************************************************************)
C5_ExitCodes ==
    /\ exitCode \in {<<>>, <<0>>, <<1>>}
    /\ (exitCode # <<>>) = (pc \in Terminal)
    /\ (exitCode = <<0>>) =
          /\ {completed[i] : i \in 1..Len(completed)} = {"GeneratePipeline", "GenerateDockerfile",
                 "ValidateCredentials", "ComputeVersionTag", "Login", "Build", "Push",
                 "CheckStatus", "Predict"}
          /\ failure = NoFailure
    /\ (exitCode = <<0>>) => (pc = "Done" /\ Len(calls) = 3 /\ Len(collab) = 4 /\ ~CredsAbsent)
    /\ (exitCode = <<1>>) = (failure # NoFailure)
    /\ (\E i \in 1..Len(calls) : calls[i].returncode # 0) => exitCode = <<1>>
    /\ (\E i \in 1..Len(collab) : collab[i].outcome = "error") => exitCode = <<1>>
    /\ (CredsAbsent /\ pc \notin {"GeneratePipeline", "GenerateDockerfile",
                                  "ComputeVersionTag", "ValidateCredentials"})
          => exitCode = <<1>>

\* a run that completed the Predict stage
C5_Witness ==
    /\ pc = "Done"
    /\ exitCode = <<0>>
    /\ collab[Len(collab)].name = "predict_build_failure"

(***************************************************************************)
(* C6: Aborted is terminal and reached on every failure: a detected        *)
(* failure (non-zero return code, failed collaborator, missing credential, *)
(* failed write or launch) leaves the run in Aborted, and an aborted run   *)
(* makes no further collaborator call, file write or subprocess            *)
(* invocation and completes no further stage.                              *)
(***************************************************************************)
C6_FailureDetected ==
    \/ failure # NoFailure
    \/ \E i \in 1..Len(calls) : calls[i].returncode # 0
    \/ \E i \in 1..Len(collab) : collab[i].outcome = "error"

C6_AbortIsTerminal ==
    /\ [](C6_FailureDetected => pc = "Aborted")
    /\ [](\A i \in 1..Len(calls) : calls[i].returncode # 0 => i = Len(calls))
    /\ [](\A i \in 1..Len(collab) : collab[i].outcome = "error" => i = Len(collab))
    /\ [][pc = "Aborted" => UNCHANGED <<pc, collab, files, written, calls, completed, out, exitCode>>]_vars

\* a run aborted by a failed push
C6_Witness ==
    /\ pc = "Aborted"
    /\ failure = Failure("Push", "SubprocessFailure")
    /\ calls[Len(calls)].returncode # 0

(***************************************************************************)
(* C7 as stated: the stages complete in the order GeneratePipeline,        *)
(* GenerateDockerfile, ValidateCredentials, ComputeVersionTag, Login,      *)
(* Build, Push, CheckStatus, Predict, and a run that aborts on missing     *)
(* credentials never computes a version tag.                               *)
(***************************************************************************)
C7_Original_TagAfterValidation ==
    /\ IsPrefix(completed, SpecStageOrder)
    /\ (failure.error = "MissingCredentials" => (tagCount = 0 /\ version_tag = <<>>))

(***************************************************************************)
(* C7 as amended: the stages complete in the order GeneratePipeline,       *)
(* GenerateDockerfile, ComputeVersionTag, ValidateCredentials, Login,      *)
(* Build, Push, CheckStatus, Predict; the version tag is computed before   *)
(* the credentials are checked, so a run that aborts on missing            *)
(* credentials has computed a version tag, which no subprocess receives.   *)
(***************************************************************************)
C7_StageOrder ==
    /\ IsPrefix(completed, CodeStageOrder)
    /\ (pc \notin Terminal =>
          (Len(completed) < Len(CodeStageOrder) /\ pc = CodeStageOrder[Len(completed) + 1]))
    /\ (pc = "Done" => completed = CodeStageOrder)
    /\ (failure.error = "MissingCredentials" =>
          /\ completed = <<"GeneratePipeline", "GenerateDockerfile", "ComputeVersionTag">>
          /\ tagCount = 1
          /\ version_tag # <<>>
          /\ calls = <<>>)

\* a run aborted by the credential check
C7_Witness ==
    /\ pc = "Aborted"
    /\ failure.error = "MissingCredentials"
    /\ CredsAbsent

(***************************************************************************)
(* C8 as stated: when the credential check fails the run has performed no  *)
(* side effect at all: no file written, no login, no build, no push.       *)
(***************************************************************************)
C8_Original_NoSideEffectBeforeCheck ==
    failure.stage = "ValidateCredentials" =>
        /\ written = <<>>
        /\ \A p \in Paths : files[p] = <<>>
        /\ calls = <<>>

(***************************************************************************)
(* C8 as amended: when the credential check fails the run has invoked no   *)
(* login, build or push, but it has already called both generative         *)
(* collaborators and written the pipeline file and the Dockerfile.         *)
(***************************************************************************)
C8_FilesWrittenBeforeCheck ==
    failure.stage = "ValidateCredentials" =>
        /\ calls = <<>>
        /\ written = <<PipelinePath, DockerfilePath>>
        /\ files[PipelinePath] = PipelineText
        /\ files[DockerfilePath] = DockerfileText
        /\ Len(collab) = 2

\* the credential check failed on an unset password
C8_Witness ==
    /\ failure.stage = "ValidateCredentials"
    /\ ~env.DOCKERHUB_PASSWORD.present
    /\ ~Falsy(env.DOCKERHUB_USERNAME)

(***************************************************************************)
(* C9: the version tag is a function of the wall-clock reading of the form *)
(* v1-YYYYMMDD-HHMMSS: equal readings give equal tags, and an earlier      *)
(* reading gives a lexicographically smaller tag (readings are the local   *)
(* date and time datetime.now() returns, with four-digit years).           *)
(***************************************************************************)
IsDigit(c) == c \in 48..57

IsTagForm(tag) ==
    /\ Len(tag) = 18
    /\ SubSeq(tag, 1, 3) = TagPrefix
    /\ tag[12] = 45
    /\ \A i \in (4..11) \cup (13..18) : IsDigit(tag[i])

C9_TagMonotone ==
    (tagA # <<>> /\ tagB # <<>>) =>
        /\ IsTagForm(tagA)
        /\ IsTagForm(tagB)
        /\ (ta = tb => tagA = tagB)
        /\ (DateTimeLess(ta, tb) => LexLess(tagA, tagB))
        /\ (tagA = tagB => ta = tb)

\* two tags generated for readings where the earlier one has the larger seconds, hours and day fields
C9_Witness ==
    /\ tagA # <<>>
    /\ tagB # <<>>
    /\ DateTimeLess(ta, tb)
    /\ ta.second > tb.second
    /\ ta.hour > tb.hour
    /\ ta.day > tb.day
    /\ ta.month = 9
    /\ tb.month = 10

(***************************************************************************)
(* C10: the registry password is never part of the argument vector of a    *)
(* subprocess: no argv entry of login, build or push is computed from      *)
(* dockerhub_pass, an argv entry can equal the password text only where it *)
(* is the username argument, and login gets the username as its fourth     *)
(* argument and the password, and nothing else, on its standard input.     *)
(***************************************************************************)
C10_PasswordNotInArgv ==
    \A i \in 1..Len(calls) :
        /\ \A k \in 1..Len(calls[i].argv) :
              /\ "dockerhub_pass" \notin calls[i].argv[k].reads
              /\ (calls[i].argv[k].text = env.DOCKERHUB_PASSWORD.val =>
                     (calls[i].argv[k].reads = {"dockerhub_user"}
                        /\ env.DOCKERHUB_USERNAME = env.DOCKERHUB_PASSWORD))
        /\ (calls[i].cmd = "login" =>
              /\ calls[i].argv[4] = Arg(env.DOCKERHUB_USERNAME.val, {"dockerhub_user"})
              /\ calls[i].input = <<Arg(env.DOCKERHUB_PASSWORD.val, {"dockerhub_pass"})>>)
        /\ (calls[i].cmd # "login" => calls[i].input = <<>>)

\* login, build and push were all invoked in a run whose username differs from its password
C10_Witness ==
    /\ Len(calls) = 3
    /\ calls[1].cmd = "login"
    /\ calls[3].cmd = "push"
    /\ env.DOCKERHUB_USERNAME # env.DOCKERHUB_PASSWORD

(***************************************************************************)
(* C11: a run with both credentials non-empty in which every collaborator  *)
(* call succeeded, every docker subprocess returned 0 and no file write or *)
(* launch failed ends in Done with exit code 0, having invoked login,      *)
(* build and push exactly once each, in that order, and completed Predict. *)
(***************************************************************************)
C11_HappyPath ==
    ( /\ pc \in Terminal
      /\ ~CredsAbsent
      /\ \A i \in 1..Len(collab) : collab[i].outcome = "ok"
      /\ \A i \in 1..Len(calls) : calls[i].returncode = 0
      /\ failure.error # "OSError" )
    =>
    ( /\ pc = "Done"
      /\ exitCode = <<0>>
      /\ Len(calls) = 3
      /\ calls[1].cmd = "login"
      /\ calls[2].cmd = "build"
      /\ calls[3].cmd = "push"
      /\ completed[Len(completed)] = "Predict"
      /\ collab[Len(collab)].name = "predict_build_failure" )

\* the run of user "al" with password "t" that went through
C11_Witness ==
    /\ pc = "Done"
    /\ env.DOCKERHUB_USERNAME = Text(<<97, 108>>)
    /\ env.DOCKERHUB_PASSWORD = Text(<<116>>)
    /\ \A i \in 1..Len(calls) : calls[i].returncode = 0

(***************************************************************************)
(* C12: when login, build or push returns a non-zero exit code, the last   *)
(* two lines printed name the stage whose subprocess failed and give that  *)
(* subprocess's captured standard error, and the process has exited with   *)
(* code 1.                                                                 *)
(***************************************************************************)
StageOfCmd(cmd) ==
    CASE cmd = "login" -> "Login" [] cmd = "build" -> "Build" [] cmd = "push" -> "Push"

FailedTextOfCmd(cmd) ==
    CASE cmd = "login" -> "Docker login failed:"
      [] cmd = "build" -> "Docker build failed:"
      [] cmd = "push" -> "Docker push failed:"

C12_FailureReportNamesStage ==
    \A i \in 1..Len(calls) :
        calls[i].returncode # 0 =>
            /\ i = Len(calls)
            /\ failure = Failure(StageOfCmd(calls[i].cmd), "SubprocessFailure")
            /\ Len(out) >= 2
            /\ out[Len(out) - 1] = Line(FailedTextOfCmd(calls[i].cmd), <<>>)
            /\ out[Len(out)] = Line("", calls[i].stderr)
            /\ pc = "Aborted"
            /\ exitCode = <<1>>

\* a build that failed with a non-empty error stream
C12_Witness ==
    /\ Len(calls) = 2
    /\ calls[2].cmd = "build"
    /\ calls[2].returncode = 1
    /\ calls[2].stderr = <<110, 111>>
    /\ exitCode = <<1>>

(***************************************************************************)
(* C13 as stated: when credential validation fails, the report identifies  *)
(* which credentials are missing: no other combination of values with a    *)
(* different set of missing credentials would have produced the report     *)
(* this run printed.                                                       *)
(***************************************************************************)
MissingSet(user, pass) ==
    {n \in {"DOCKERHUB_USERNAME", "DOCKERHUB_PASSWORD"} :
        \/ (n = "DOCKERHUB_USERNAME" /\ Falsy(user))
        \/ (n = "DOCKERHUB_PASSWORD" /\ Falsy(pass))}

\* the last two lines printed
LastReport == SubSeq(out, Len(out) - 1, Len(out))

C13_Original_ReportIdentifiesMissing ==
    failure.stage = "ValidateCredentials" =>
        \A u \in UserValues, p \in PassValues :
            ( /\ CredentialsMissing(u, p)
              /\ MissingSet(u, p) # MissingSet(env.DOCKERHUB_USERNAME, env.DOCKERHUB_PASSWORD) )
            => CredentialErrorLines(u, p) # LastReport

(***************************************************************************)
(* C13 as amended: when credential validation fails, the run prints the    *)
(* same fixed two lines for every combination of absent or empty username  *)
(* and password; the message names both variables and does not tell which  *)
(* of them is missing.                                                     *)
(***************************************************************************)
C13_GenericCredentialReport ==
    failure.stage = "ValidateCredentials" =>
        /\ CredsAbsent
        /\ failure.error = "MissingCredentials"
        /\ LastReport =
             <<Line("Error: DockerHub credentials are not set in environment variables.", <<>>),
               Line("Please set DOCKERHUB_USERNAME and DOCKERHUB_PASSWORD in GitHub Secrets.", <<>>)>>
        /\ exitCode = <<1>>

\* the credential check failed with only the password missing
C13_Witness ==
    /\ failure.stage = "ValidateCredentials"
    /\ MissingSet(env.DOCKERHUB_USERNAME, env.DOCKERHUB_PASSWORD) = {"DOCKERHUB_PASSWORD"}
    /\ env.DOCKERHUB_PASSWORD = Text(<<>>)

(***************************************************************************)
(* C14: the status-check collaborator is called only after push returned   *)
(* 0, and the image tag it is configured with is the fully qualified tag   *)
(* <user>/myapp:<version> that build and push were given in this run.      *)
(***************************************************************************)
C14_StatusCheckAfterPush ==
    \A i \in 1..Len(collab) :
        collab[i].name = "check_build_status" =>
            /\ Len(calls) = 3
            /\ calls[3].cmd = "push"
            /\ calls[3].returncode = 0
            /\ calls[2].cmd = "build"
            /\ collab[i].config.image_tag = calls[2].argv[4].text
            /\ collab[i].config.image_tag = calls[3].argv[3].text
            /\ collab[i].config.image_tag =
                  FullImageTag(env.DOCKERHUB_USERNAME.val, version_tag)
            /\ version_tag # <<>>

\* the status check was called for user "b"
C14_Witness ==
    /\ \E i \in 1..Len(collab) : collab[i].name = "check_build_status"
    /\ env.DOCKERHUB_USERNAME = Text(<<98>>)

(***************************************************************************)
(* C15: the prediction collaborator is called only after the status check  *)
(* returned, directly after it (no collaborator call or subprocess in      *)
(* between), and the record it receives holds the status value the status  *)
(* check returned, the python version given to the pipeline generator, and *)
(* TRUE for Dockerfile present, pipeline present and dependencies updated. *)
(***************************************************************************)
C15_PredictionFacts ==
    \A i \in 1..Len(collab) :
        collab[i].name = "predict_build_failure" =>
            /\ i = 4
            /\ collab[3].name = "check_build_status"
            /\ collab[3].outcome = "ok"
            /\ status \in StatusTexts
            /\ \E k \in 1..Len(out) : out[k] = Line("Build Status: ", status)
            /\ collab[i].arg =
                  [dockerfile_exists |-> TRUE, ci_pipeline_exists |-> TRUE,
                   last_build_status |-> status,
                   python_version |-> collab[1].config.python_version,
                   dependencies_updated |-> TRUE]
            /\ collab[1].name = "generate_pipeline"
            /\ Len(calls) = 3
            /\ completed[Len(completed)] \in {"CheckStatus", "Predict"}

\* the predictor was called after the status check returned "ko"
C15_Witness ==
    /\ Len(collab) = 4
    /\ collab[4].name = "predict_build_failure"
    /\ status = <<107, 111>>

(***************************************************************************)
(* C16: nothing an earlier stage did is undone, by a later stage or by the *)
(* abort: a written file keeps its text, the only subprocesses ever run    *)
(* are login, build and push (no logout, no image removal), and an aborted *)
(* run still has what it had produced: after a failed push the session is  *)
(* logged in, the image is built and both files exist; after a missing     *)
(* credential both files exist.                                            *)
(***************************************************************************)
\* effects of the docker subprocesses that returned 0
SessionLoggedIn == \E i \in Invocations("login") : calls[i].returncode = 0
LocalImages == {calls[i].argv[4].text : i \in {j \in Invocations("build") : calls[j].returncode = 0}}

BothFilesExist == files[PipelinePath] = PipelineText /\ files[DockerfilePath] = DockerfileText

C16_State ==
    /\ \A i \in 1..Len(calls) : calls[i].cmd \in {"login", "build", "push"}
    /\ \A i \in 1..Len(written) : files[written[i]] # <<>>
    /\ (failure.stage = "Push" =>
          (SessionLoggedIn /\ LocalImages = {full_image_tag} /\ BothFilesExist))
    /\ (failure.stage = "Build" => (SessionLoggedIn /\ BothFilesExist))
    /\ (failure.stage \in {"ValidateCredentials", "Login", "CheckStatus", "Predict"} =>
          BothFilesExist)
    /\ (failure.stage = "GenerateDockerfile" => files[PipelinePath] = PipelineText)

C16_NoRollback ==
    /\ []C16_State
    /\ [][ /\ \A p \in Paths : files[p] # <<>> => files'[p] = files[p]
           /\ IsPrefix(written, written')
           /\ IsPrefix(calls, calls') ]_vars

\* a push failed after a successful build
C16_Witness ==
    /\ failure.stage = "Push"
    /\ pc = "Aborted"
    /\ LocalImages # {}

(***************************************************************************)
(* C17: there is no retry: whatever the exit codes, login, build and push  *)
(* are each invoked at most once, and each collaborator is called at most  *)
(* once.                                                                   *)
(***************************************************************************)
C17_NoRetry ==
    /\ \A cmd \in {"login", "build", "push"} : Cardinality(Invocations(cmd)) <= 1
    /\ \A name \in {"generate_pipeline", "generate_dockerfile", "check_build_status",
                    "predict_build_failure"} :
          Cardinality({i \in 1..Len(collab) : collab[i].name = name}) <= 1
    /\ Len(calls) <= 3
    /\ Len(collab) <= 4

\* a run ended by a login that failed
C17_Witness ==
    /\ pc = "Aborted"
    /\ Len(calls) = 1
    /\ calls[1].cmd = "login"
    /\ calls[1].returncode = 1

(***************************************************************************)
(* C18: every run whose calls all return ends in Done or in Aborted: each  *)
(* statement of main() moves the run strictly forward in the stage order,  *)
(* a terminal state is eventually reached, is never left, and is Done with *)
(* exit code 0 or Aborted with exit code 1.                                *)
(***************************************************************************)
StageRank(p) ==
    IF p \in Terminal THEN Len(CodeStageOrder) + 1
    ELSE IF \E i \in 1..Len(CodeStageOrder) : CodeStageOrder[i] = p
         THEN CHOOSE i \in 1..Len(CodeStageOrder) : CodeStageOrder[i] = p
         ELSE 0

C18_Terminates ==
    /\ <>(pc \in Terminal)
    /\ [](pc \in Terminal \/ StageRank(pc) > 0)
    /\ []((pc = "Done") = (exitCode = <<0>>))
    /\ []((pc = "Aborted") = (exitCode = <<1>>))
    /\ [][(pc \in Terminal) => (pc' = pc)]_vars
    /\ [][UNCHANGED <<now, ticks>> => (StageRank(pc') > StageRank(pc))]_vars

\* a run ended by a failing status check
C18_Witness ==
    /\ pc = "Aborted"
    /\ failure = Failure("CheckStatus", "CollaboratorError")
    /\ exitCode = <<1>>

====
